---- MODULE Spec2Model ----
(***************************************************************************)
(* River layout generators: the Carousel engine (carousel/src/lib.rs) and  *)
(* the UniformGrid engine (uniform-grid/src/lib.rs).                       *)
(*                                                                         *)
(* Both engines compute with f32.  An f32 is modelled bit-exactly as a     *)
(* record [cls, neg, m, e]: cls = "num" stands for (-1)^neg * m * 2^e with *)
(* m = 0 (a signed zero) or 2^23 <= m < 2^24; cls = "inf" is a signed      *)
(* infinity and cls = "nan" is NaN.  Every operation rounds to nearest,    *)
(* ties to even, as IEEE 754 binary32 does.  Subnormal results are not     *)
(* modelled: no input drawn below brings an exponent near -126.            *)
(***************************************************************************)
EXTENDS Integers, Sequences, FiniteSets, TLC

\* ------------------------------------------------------------------ i32

I32Max == 2147483647

I32Min == -I32Max - 1

Abs(n) == IF n < 0 THEN -n ELSE n

\* i32::saturating_add / saturating_sub / saturating_mul.  The tests on the
\* operands keep every intermediate value inside the 32-bit range.
SaturatingAdd(a, b) ==
    IF b > 0 /\ a > I32Max - b THEN I32Max
    ELSE IF b < 0 /\ a < I32Min - b THEN I32Min
    ELSE a + b

SaturatingSub(a, b) ==
    IF b < 0 /\ a > I32Max + b THEN I32Max
    ELSE IF b > 0 /\ a < I32Min + b THEN I32Min
    ELSE a - b

SaturatingMul(a, b) ==
    IF a = 0 \/ b = 0 THEN 0
    ELSE IF Abs(a) > I32Max \div Abs(b)
         THEN (IF (a < 0) = (b < 0) THEN I32Max ELSE I32Min)
         ELSE a * b

\* ------------------------------------------------------------------ f32

\* Width of the f32 significand (with the hidden bit).
MantissaBits == 24

\* Largest binary exponent of a finite f32.
MaxExponent == 127

\* Number of bits of x > 0 (0 for x = 0); x < 2^31.
BitLen(x) == IF x = 0 THEN 0 ELSE CHOOSE L \in 1..31 : x \div 2^(L - 1) = 1

NaN == [cls |-> "nan", neg |-> FALSE, m |-> 0, e |-> 0]

Inf(neg) == [cls |-> "inf", neg |-> neg, m |-> 0, e |-> 0]

Zero(neg) == [cls |-> "num", neg |-> neg, m |-> 0, e |-> 0]

IsZero(a) == a.cls = "num" /\ a.m = 0

\* (-1)^neg * (q + t) * 2^e rounded to f32, where 0 <= q < 2^31 and
\* 0 < t < 1 when sticky, t = 0 otherwise.  Callers pass at least 25
\* significant bits whenever sticky is set.
RoundPack(neg, q, e, sticky) ==
    IF q = 0 THEN Zero(neg)
    ELSE LET L == BitLen(q) IN
         IF L <= MantissaBits
         THEN [cls |-> "num", neg |-> neg,
               m |-> q * 2^(MantissaBits - L), e |-> e - (MantissaBits - L)]
         ELSE LET d    == L - MantissaBits
                  t    == q \div 2^d
                  rem  == q % 2^d
                  half == 2^(d - 1)
                  up   == rem > half \/ (rem = half /\ (sticky \/ t % 2 = 1))
                  m1   == IF up THEN t + 1 ELSE t
                  m2   == IF m1 = 2^MantissaBits THEN 2^(MantissaBits - 1) ELSE m1
                  e2   == IF m1 = 2^MantissaBits THEN e + d + 1 ELSE e + d
              IN IF e2 + MantissaBits - 1 > MaxExponent THEN Inf(neg)
                 ELSE [cls |-> "num", neg |-> neg, m |-> m2, e |-> e2]

\* `n as f32` for an i32 n.
F32FromInt(n) ==
    IF n = I32Min
    THEN [cls |-> "num", neg |-> TRUE, m |-> 2^(MantissaBits - 1), e |-> 8]
    ELSE RoundPack(n < 0, Abs(n), 0, FALSE)

F32Neg(a) == IF a.cls = "nan" THEN a ELSE [a EXCEPT !.neg = ~a.neg]

\* a * b.  The 48-bit product of the significands is formed from 12-bit
\* halves so that no intermediate value needs more than 27 bits.
F32Mul(a, b) ==
    IF a.cls = "nan" \/ b.cls = "nan" THEN NaN
    ELSE LET neg == a.neg # b.neg IN
    IF a.cls = "inf" \/ b.cls = "inf"
    THEN (IF IsZero(a) \/ IsZero(b) THEN NaN ELSE Inf(neg))
    ELSE IF a.m = 0 \/ b.m = 0 THEN Zero(neg)
    ELSE LET ah    == a.m \div 4096
             al    == a.m % 4096
             bh    == b.m \div 4096
             bl    == b.m % 4096
             cross == ah * bl + al * bh
             low   == al * bl + (cross % 4096) * 4096
             low24 == low % 2^24
             high  == ah * bh + cross \div 4096 + low \div 2^24
         IN RoundPack(neg, high * 4 + low24 \div 2^22, a.e + b.e + 22,
                      low24 % 2^22 # 0)

\* Long division: k more quotient bits of r / d appended to acc (r < d).
RECURSIVE DivBits(_, _, _, _)
DivBits(r, d, k, acc) ==
    IF k = 0 THEN <<acc, r>>
    ELSE DivBits((2 * r) % d, d, k - 1, 2 * acc + (2 * r) \div d)

\* a / b.
F32Div(a, b) ==
    IF a.cls = "nan" \/ b.cls = "nan" THEN NaN
    ELSE LET neg == a.neg # b.neg IN
    IF a.cls = "inf" THEN (IF b.cls = "inf" THEN NaN ELSE Inf(neg))
    ELSE IF b.cls = "inf" THEN Zero(neg)
    ELSE IF b.m = 0 THEN (IF a.m = 0 THEN NaN ELSE Inf(neg))
    ELSE IF a.m = 0 THEN Zero(neg)
    ELSE LET qr == DivBits(a.m % b.m, b.m, 26, a.m \div b.m)
         IN RoundPack(neg, qr[1], a.e - b.e - 26, qr[2] # 0)

\* |a| >= |b| for finite a, b.
MagGeq(a, b) ==
    \/ b.m = 0
    \/ a.m # 0 /\ (a.e > b.e \/ (a.e = b.e /\ a.m >= b.m))

\* a + b.  Three extra low bits (guard, round, sticky) are kept while the
\* smaller operand is aligned to the larger one.
F32Add(a, b) ==
    IF a.cls = "nan" \/ b.cls = "nan" THEN NaN
    ELSE IF a.cls = "inf"
    THEN (IF b.cls = "inf" /\ a.neg # b.neg THEN NaN ELSE a)
    ELSE IF b.cls = "inf" THEN b
    ELSE IF a.m = 0 /\ b.m = 0 THEN Zero(a.neg /\ b.neg)
    ELSE IF a.m = 0 THEN b
    ELSE IF b.m = 0 THEN a
    ELSE LET big   == IF MagGeq(a, b) THEN a ELSE b
             small == IF MagGeq(a, b) THEN b ELSE a
             d     == big.e - small.e
             A     == big.m * 8
             Bs    == IF d > 27 THEN 0 ELSE (small.m * 8) \div 2^d
             lost  == IF d > 27 THEN TRUE ELSE (small.m * 8) % 2^d # 0
             B     == IF lost /\ Bs % 2 = 0 THEN Bs + 1 ELSE Bs
             S     == IF big.neg = small.neg THEN A + B ELSE A - B
         IN IF S = 0 THEN Zero(FALSE)
            ELSE RoundPack(big.neg, S, big.e - 3, FALSE)

F32Sub(a, b) == F32Add(a, F32Neg(b))

\* a > b.
F32Gt(a, b) ==
    IF a.cls = "nan" \/ b.cls = "nan" THEN FALSE
    ELSE IF a.cls = "inf" THEN ~a.neg /\ ~(b.cls = "inf" /\ ~b.neg)
    ELSE IF b.cls = "inf" THEN b.neg
    ELSE IF a.m = 0 /\ b.m = 0 THEN FALSE
    ELSE IF a.m = 0 THEN b.neg
    ELSE IF b.m = 0 THEN ~a.neg
    ELSE IF a.neg # b.neg THEN b.neg
    ELSE IF a.neg THEN MagGeq(b, a) /\ ~MagGeq(a, b)
    ELSE MagGeq(a, b) /\ ~MagGeq(b, a)

\* `a as i32`: truncation toward zero, saturating, NaN to 0.
F32ToI32(a) ==
    IF a.cls = "nan" THEN 0
    ELSE IF a.cls = "inf" THEN (IF a.neg THEN I32Min ELSE I32Max)
    ELSE IF a.m = 0 THEN 0
    ELSE IF a.e >= 8 THEN (IF a.neg THEN I32Min ELSE I32Max)
    ELSE LET mag == IF a.e >= 0 THEN a.m * 2^a.e
                    ELSE IF -a.e >= MantissaBits THEN 0
                    ELSE a.m \div 2^(-a.e)
         IN IF a.neg THEN -mag ELSE mag

\* The f32 nearest to the decimal n / 10^k (n, 10^k < 2^24: both operands
\* are exact, so the single rounding of the division is the correct one).
F32Decimal(n, k) == F32Div(F32FromInt(n), F32FromInt(10^k))

\* ------------------------------------------------------------- commands

\* A command line is a sequence of one-character strings.
IsWhitespace(c) == c \in {" ", "\t"}

\* str::split_whitespace: the maximal runs of non-whitespace characters.
RECURSIVE SplitFrom(_, _, _)
SplitFrom(cmd, i, word) ==
    IF i > Len(cmd) THEN (IF word = <<>> THEN <<>> ELSE <<word>>)
    ELSE IF IsWhitespace(cmd[i])
         THEN (IF word = <<>> THEN <<>> ELSE <<word>>) \o SplitFrom(cmd, i + 1, <<>>)
         ELSE SplitFrom(cmd, i + 1, Append(word, cmd[i]))

SplitWhitespace(cmd) == SplitFrom(cmd, 1, <<>>)

DigitChars == <<"0", "1", "2", "3", "4", "5", "6", "7", "8", "9">>

IsDigit(c) == \E i \in 1..10 : DigitChars[i] = c

DigitValue(c) == (CHOOSE i \in 1..10 : DigitChars[i] = c) - 1

RECURSIVE DigitsValue(_)
DigitsValue(ds) ==
    IF ds = <<>> THEN 0
    ELSE 10 * DigitsValue(SubSeq(ds, 1, Len(ds) - 1)) + DigitValue(ds[Len(ds)])

\* <f32 as FromStr>::from_str on a token: an optional sign, then "inf",
\* "infinity", "nan", or decimal digits with an optional fraction.  The
\* result is the f32 nearest to the decimal.  Exponent notation ("1e3") is
\* outside this model: no command drawn below uses it.  Tokens of at most
\* seven digits are covered (the digits then form an exact f32).
ParseF32(tok) ==
    LET signed == tok # <<>> /\ tok[1] \in {"+", "-"}
        neg    == tok # <<>> /\ tok[1] = "-"
        rest   == IF signed THEN Tail(tok) ELSE tok
        dots   == {i \in 1..Len(rest) : rest[i] = "."}
        dot    == IF dots = {} THEN Len(rest) + 1 ELSE CHOOSE i \in dots : TRUE
        int    == SubSeq(rest, 1, dot - 1)
        frac   == SubSeq(rest, dot + 1, Len(rest))
        digits == int \o frac
        v      == F32Decimal(DigitsValue(digits), Len(frac))
    IN IF rest \in {<<"i", "n", "f">>, <<"i", "n", "f", "i", "n", "i", "t", "y">>}
       THEN [ok |-> TRUE, value |-> Inf(neg)]
       ELSE IF rest = <<"n", "a", "n">>
       THEN [ok |-> TRUE, value |-> NaN]
       ELSE IF /\ digits # <<>>
               /\ Cardinality(dots) <= 1
               /\ \A i \in 1..Len(digits) : IsDigit(digits[i])
       THEN [ok |-> TRUE, value |-> IF neg THEN F32Neg(v) ELSE v]
       ELSE [ok |-> FALSE, value |-> NaN]

Ok == [kind |-> "Ok", error |-> "", arg |-> <<>>]

Err(error, arg) == [kind |-> "Err", error |-> error, arg |-> arg]

Scroll == <<"s", "c", "r", "o", "l", "l">>

Amount == <<"a", "m", "o", "u", "n", "t">>

\* Mutant of CarouselUserCmdInner: an unparsable amount counts as 0.0
\* (`unwrap_or(0.0)`) instead of failing.
CarouselUserCmdInnerLenient(config, cmd) ==
    LET parts == SplitWhitespace(cmd)
        first == IF parts = <<>> THEN <<>> ELSE parts[1]
    IN IF first = Scroll
       THEN IF Len(parts) < 2
            THEN [result |-> Err("MissingArgument", Amount), config |-> config]
            ELSE [result |-> Ok,
                  config |-> [config EXCEPT !.scroll_offset =
                                 F32Add(config.scroll_offset,
                                        IF ParseF32(parts[2]).ok
                                        THEN ParseF32(parts[2]).value
                                        ELSE Zero(FALSE))]]
       ELSE [result |-> Err("UnknownCommand", first), config |-> config]

\* Mutant of CarouselUserCmdInner: the scroll offset is clamped at 0.
CarouselUserCmdInnerClamped(config, cmd) ==
    LET parts == SplitWhitespace(cmd)
        first == IF parts = <<>> THEN <<>> ELSE parts[1]
    IN IF first = Scroll
       THEN IF Len(parts) < 2
            THEN [result |-> Err("MissingArgument", Amount), config |-> config]
            ELSE IF ~ParseF32(parts[2]).ok
                 THEN [result |-> Err("InvalidArgument", Amount), config |-> config]
                 ELSE [result |-> Ok,
                       config |-> [config EXCEPT !.scroll_offset =
                                      IF F32Add(config.scroll_offset,
                                                ParseF32(parts[2]).value).neg
                                      THEN Zero(FALSE)
                                      ELSE F32Add(config.scroll_offset,
                                                  ParseF32(parts[2]).value)]]
       ELSE [result |-> Err("UnknownCommand", first), config |-> config]

\* Carousel::user_cmd_inner: the outcome and the configuration it leaves.
\* `?` returns before `scroll_offset += amount` is reached.
CarouselUserCmdInner(config, cmd) ==
    LET parts == SplitWhitespace(cmd)
        first == IF parts = <<>> THEN <<>> ELSE parts[1]
    IN IF first = Scroll
       THEN IF Len(parts) < 2
            THEN [result |-> Err("MissingArgument", Amount), config |-> config]
            ELSE LET amount == ParseF32(parts[2]) IN
                 IF ~amount.ok
                 THEN [result |-> Err("InvalidArgument", Amount), config |-> config]
                 ELSE [result |-> Ok,
                       config |-> [config EXCEPT !.scroll_offset =
                                      F32Add(config.scroll_offset, amount.value)]]
       ELSE [result |-> Err("UnknownCommand", first), config |-> config]

\* UniformGrid::user_cmd_inner: every command is unknown.
UniformGridUserCmdInner(config, cmd) ==
    LET parts == SplitWhitespace(cmd)
        first == IF parts = <<>> THEN <<>> ELSE parts[1]
    IN [result |-> Err("UnknownCommand", first), config |-> config]

\* ------------------------------------------------------------- Carousel

Edges == {"Left", "Right", "Bottom", "Top"}

\* Config::default() of the carousel, with the edge left open.
CarouselDefault(main_location) ==
    [main_location         |-> main_location,
     main_ratio            |-> F32Decimal(6, 1),
     secondary_window_size |-> F32Decimal(5, 1),
     outer_padding         |-> 6,
     view_padding          |-> 6,
     scroll_offset         |-> Zero(FALSE)]

Rectangle(x, y, width, height) ==
    [x |-> x, y |-> y, width |-> width, height |-> height]

\* i32 -> u32 `try_into().unwrap()` succeeds on exactly the non-negatives.
TryIntoU32Ok(n) == n >= 0

PaddedWidth(config, usable_width) == usable_width - 2 * config.outer_padding

PaddedHeight(config, usable_height) == usable_height - 2 * config.outer_padding

MainSplitWidthwise(config, usable_width) ==
    F32ToI32(F32Mul(F32FromInt(PaddedWidth(config, usable_width) - config.view_padding),
                    config.main_ratio))

MainSplitHeightwise(config, usable_height) ==
    F32ToI32(F32Mul(F32FromInt(PaddedHeight(config, usable_height) - config.view_padding),
                    config.main_ratio))

SecondarySplitWidthwise(config, usable_width) ==
    PaddedWidth(config, usable_width) - config.view_padding
        - MainSplitWidthwise(config, usable_width)

SecondarySplitHeightwise(config, usable_height) ==
    PaddedHeight(config, usable_height) - config.view_padding
        - MainSplitHeightwise(config, usable_height)

\* main_area, with width and height still i32 (before try_into).
MainArea(config, usable_width, usable_height) ==
    CASE config.main_location = "Left" ->
           Rectangle(config.outer_padding, config.outer_padding,
                     MainSplitWidthwise(config, usable_width),
                     PaddedHeight(config, usable_height))
      [] config.main_location = "Top" ->
           Rectangle(config.outer_padding, config.outer_padding,
                     PaddedWidth(config, usable_width),
                     MainSplitHeightwise(config, usable_height))
      [] config.main_location = "Right" ->
           Rectangle(usable_width - config.outer_padding
                         - MainSplitWidthwise(config, usable_width),
                     config.outer_padding,
                     MainSplitWidthwise(config, usable_width),
                     PaddedHeight(config, usable_height))
      [] config.main_location = "Bottom" ->
           Rectangle(config.outer_padding,
                     usable_width - config.outer_padding
                         - MainSplitHeightwise(config, usable_height),
                     PaddedWidth(config, usable_width),
                     MainSplitHeightwise(config, usable_height))

\* Mutant of SecondarySize: the gutter is not added to the extent first.
SecondarySizeNoGutter(config, padded) ==
    F32ToI32(F32Mul(F32FromInt(padded), config.secondary_window_size))
        - config.view_padding

\* The "size from fraction" computation: ((extent + v) as f32 * size) as i32 - v.
SecondarySize(config, padded) ==
    F32ToI32(F32Mul(F32FromInt(padded + config.view_padding),
                    config.secondary_window_size))
        - config.view_padding

SecondarySizeWidthwise(config, usable_width) ==
    SecondarySize(config, PaddedWidth(config, usable_width))

SecondarySizeHeightwise(config, usable_height) ==
    SecondarySize(config, PaddedHeight(config, usable_height))

\* secondary_base, with width and height still i32 (before try_into).
SecondaryBase(config, usable_width, usable_height) ==
    CASE config.main_location = "Left" ->
           Rectangle(config.outer_padding + MainSplitWidthwise(config, usable_width)
                         + config.view_padding,
                     config.outer_padding,
                     SecondarySplitWidthwise(config, usable_width),
                     SecondarySizeHeightwise(config, usable_height))
      [] config.main_location = "Top" ->
           Rectangle(config.outer_padding,
                     config.outer_padding + MainSplitHeightwise(config, usable_height)
                         + config.view_padding,
                     SecondarySizeWidthwise(config, usable_width),
                     SecondarySplitHeightwise(config, usable_height))
      [] config.main_location = "Right" ->
           Rectangle(config.outer_padding, config.outer_padding,
                     SecondarySplitWidthwise(config, usable_width),
                     SecondarySizeHeightwise(config, usable_height))
      [] config.main_location = "Bottom" ->
           Rectangle(config.outer_padding, config.outer_padding,
                     SecondarySizeWidthwise(config, usable_width),
                     SecondarySplitHeightwise(config, usable_height))

SecondaryStrideX(config, usable_width) ==
    IF config.main_location \in {"Left", "Right"} THEN 0
    ELSE SecondarySizeWidthwise(config, usable_width) + config.view_padding

SecondaryStrideY(config, usable_height) ==
    IF config.main_location \in {"Left", "Right"}
    THEN SecondarySizeHeightwise(config, usable_height) + config.view_padding
    ELSE 0

\* (stride as f32 * scroll_offset) as i32
ScrollShift(stride, scroll_offset) ==
    F32ToI32(F32Mul(F32FromInt(stride), scroll_offset))

ScrollX(config, usable_width) ==
    ScrollShift(SecondaryStrideX(config, usable_width), config.scroll_offset)

ScrollY(config, usable_height) ==
    ScrollShift(SecondaryStrideY(config, usable_height), config.scroll_offset)

\* Mutant of SecondaryView: the scroll shift is added, not subtracted.
SecondaryViewScrollAdded(secondary_base, stride, scroll, i) ==
    [x      |-> SaturatingAdd(SaturatingAdd(secondary_base.x,
                                  SaturatingMul(stride.x, i)), scroll.x),
     y      |-> SaturatingAdd(SaturatingAdd(secondary_base.y,
                                  SaturatingMul(stride.y, i)), scroll.y),
     width  |-> secondary_base.width,
     height |-> secondary_base.height]

\* The i-th element (i = 0, 1, ...) of the mapped range `0i32..`.
SecondaryView(secondary_base, stride, scroll, i) ==
    Rectangle(
        SaturatingSub(SaturatingAdd(secondary_base.x, SaturatingMul(stride.x, i)),
                      scroll.x),
        SaturatingSub(SaturatingAdd(secondary_base.y, SaturatingMul(stride.y, i)),
                      scroll.y),
        secondary_base.width,
        secondary_base.height)

\* Mutant of CarouselViews: view_count secondaries are taken after the main
\* rectangle, one view too many.
CarouselViewsOneMore(main_area, secondary_base, stride, scroll, view_count) ==
    [k \in 1..(view_count + 1) |->
        IF k = 1 THEN main_area
        ELSE [x      |-> secondary_base.x + stride.x * (k - 2) - scroll.x,
              y      |-> secondary_base.y + stride.y * (k - 2) - scroll.y,
              width  |-> secondary_base.width,
              height |-> secondary_base.height]]

\* Mutant of CarouselViews: the scroll shift is applied to the main rectangle
\* as well.
CarouselViewsAllScrolled(main_area, secondary_base, stride, scroll, view_count) ==
    [k \in 1..view_count |->
        IF k = 1
        THEN [main_area EXCEPT !.x = main_area.x - scroll.x,
                               !.y = main_area.y - scroll.y]
        ELSE [x      |-> secondary_base.x + stride.x * (k - 2) - scroll.x,
              y      |-> secondary_base.y + stride.y * (k - 2) - scroll.y,
              width  |-> secondary_base.width,
              height |-> secondary_base.height]]

\* [main_area].chain((0i32..).map(..)).take(view_count).collect()
CarouselViews(main_area, secondary_base, stride, scroll, view_count) ==
    [k \in 1..view_count |->
        IF k = 1 THEN main_area
        ELSE SecondaryView(secondary_base, stride, scroll, k - 2)]

Panic == [kind |-> "Panic", layout_name |-> <<>>, views |-> <<>>]

Layout(layout_name, views) ==
    [kind |-> "Ok", layout_name |-> layout_name, views |-> views]

\* The end of Carousel::generate_layout, from main_area and secondary_base on:
\* their four try_into().unwrap() calls are made whatever view_count is.
CarouselCollect(main_area, secondary_base, stride, scroll, view_count) ==
    IF /\ TryIntoU32Ok(main_area.width)
       /\ TryIntoU32Ok(main_area.height)
       /\ TryIntoU32Ok(secondary_base.width)
       /\ TryIntoU32Ok(secondary_base.height)
    THEN Layout(<<"carousel">>,
                CarouselViews(main_area, secondary_base, stride, scroll, view_count))
    ELSE Panic

\* Carousel::generate_layout
CarouselGenerateLayout(config, view_count, usable_width, usable_height) ==
    CarouselCollect(
        MainArea(config, usable_width, usable_height),
        SecondaryBase(config, usable_width, usable_height),
        [x |-> SecondaryStrideX(config, usable_width),
         y |-> SecondaryStrideY(config, usable_height)],
        [x |-> ScrollX(config, usable_width),
         y |-> ScrollY(config, usable_height)],
        view_count)

\* ---------------------------------------------------------- UniformGrid

IVec2(x, y) == [x |-> x, y |-> y]

\* Config::default() of the uniform grid; target_aspect is 16.0 / 9.0.
UniformGridDefault ==
    [target_aspect |-> F32Div(F32FromInt(16), F32FromInt(9)),
     outer_padding |-> 6,
     view_padding  |-> 6]

\* Grid::total_cells
TotalCells(size) == size.x * size.y

\* One axis of Grid::layout: the f32 stride of the cells along an axis of
\* `output` pixels divided into `count` cells.
GridStride(config, count, output) ==
    LET offset      == F32FromInt(config.outer_padding)
        padded_size == F32Sub(F32FromInt(output), F32Mul(F32FromInt(2), offset))
    IN F32Div(F32Add(padded_size, F32FromInt(config.view_padding)),
              F32FromInt(count))

\* The GridLayout of the given strides.
GridLayoutOf(config, stride) ==
    [offset    |-> IVec2(F32FromInt(config.outer_padding),
                         F32FromInt(config.outer_padding)),
     stride    |-> stride,
     view_size |-> IVec2(F32ToI32(stride.x) - config.view_padding,
                         F32ToI32(stride.y) - config.view_padding)]

\* Grid::layout
GridLayout(config, size, output_size) ==
    GridLayoutOf(config, IVec2(GridStride(config, size.x, output_size.x),
                               GridStride(config, size.y, output_size.y)))

\* GridLayout::aspect_ratio
AspectRatio(layout) ==
    F32Div(F32FromInt(layout.view_size.x), F32FromInt(layout.view_size.y))

\* GridLayout::efficiency
Efficiency(layout, target_aspect) ==
    LET arr == F32Div(AspectRatio(layout), target_aspect)
    IN IF F32Gt(arr, F32FromInt(1)) THEN arr ELSE F32Div(F32FromInt(1), arr)

\* The key of min_by_key: (eff * 1000000.0) as i32
EfficiencyKey(config, size, output_size) ==
    F32ToI32(F32Mul(Efficiency(GridLayout(config, size, output_size),
                               config.target_aspect),
                    F32FromInt(1000000)))

\* One turn of the loop: of the grid with one more column and the grid with
\* one more row, the one of least key; min_by_key keeps the first of equals.
GrowGrid(config, size, output_size) ==
    LET wider  == IVec2(size.x + 1, size.y)
        taller == IVec2(size.x, size.y + 1)
    IN IF EfficiencyKey(config, wider, output_size)
            <= EfficiencyKey(config, taller, output_size)
       THEN wider ELSE taller

\* Mutant of GridSearch: the loop runs while total_cells <= view_count.
RECURSIVE GridSearchInclusive(_, _, _, _)
GridSearchInclusive(config, size, output_size, view_count) ==
    IF TotalCells(size) <= view_count
    THEN GridSearchInclusive(config, GrowGrid(config, size, output_size),
                             output_size, view_count)
    ELSE size

\* while (grid.total_cells() as u32) < view_count { grid = ... }
RECURSIVE GridSearch(_, _, _, _)
GridSearch(config, size, output_size, view_count) ==
    IF TotalCells(size) < view_count
    THEN GridSearch(config, GrowGrid(config, size, output_size), output_size,
                    view_count)
    ELSE size

\* Mutant of GridPosition: odd rows are not mirrored.
GridPositionRowMajor(size, i_view) ==
    [x |-> i_view % size.x, y |-> i_view \div size.x]

\* The cell of view i_view in the snaking order.
GridPosition(size, i_view) ==
    LET column_base == i_view % size.x
        row         == i_view \div size.x
    IN IVec2(IF row % 2 = 0 THEN column_base ELSE size.x - 1 - column_base, row)

\* GridLayout::at, with width and height still i32 (before try_into).
At(layout, grid_position) ==
    Rectangle(F32ToI32(F32Add(layout.offset.x,
                  F32Mul(layout.stride.x, F32FromInt(grid_position.x)))),
              F32ToI32(F32Add(layout.offset.y,
                  F32Mul(layout.stride.y, F32FromInt(grid_position.y)))),
              layout.view_size.x,
              layout.view_size.y)

\* The end of UniformGrid::generate_layout, once the grid is found.  `at` runs
\* once per view, so a negative view size panics only when there is a view.
UniformGridCollect(size, layout, view_count) ==
    IF view_count > 0 /\ ~(TryIntoU32Ok(layout.view_size.x)
                           /\ TryIntoU32Ok(layout.view_size.y))
    THEN Panic
    ELSE Layout(<<"uniform-grid", size.y, size.x>>,
                [k \in 1..view_count |-> At(layout, GridPosition(size, k - 1))])

\* let layout = grid.layout(&self.config, output_size);
UniformGridPlace(config, size, output_size, view_count) ==
    UniformGridCollect(size, GridLayout(config, size, output_size), view_count)

\* UniformGrid::generate_layout
UniformGridGenerateLayout(config, view_count, usable_width, usable_height) ==
    UniformGridPlace(config,
        GridSearch(config, IVec2(1, 1), IVec2(usable_width, usable_height), view_count),
        IVec2(usable_width, usable_height),
        view_count)

\* -------------------------------------------------------- state machine

\* Most views of one layout demand.
MaxViews == 4

\* Most successful scroll commands of one run.
MaxScrolls == 2

\* The usable areas the compositor hands over, as <<usable_width, usable_height>>.
OutputSizes == {<<1206, 768>>, <<801, 601>>, <<40, 31>>, <<16, 3>>}

\* The command lines the user sends.
Commands ==
    {<<"s", "c", "r", "o", "l", "l", " ", "3">>,
     <<"s", "c", "r", "o", "l", "l", " ", "-", "3">>,
     <<"s", "c", "r", "o", "l", "l", " ", "0", ".", "1">>,
     <<" ", "s", "c", "r", "o", "l", "l", "\t", "-", "0", ".", "2", "5", " ">>,
     <<"s", "c", "r", "o", "l", "l">>,
     <<"s", "c", "r", "o", "l", "l", " ", "a", "b", "c">>,
     <<"f", "r", "o", "b", "n", "i", "c", "a", "t", "e">>,
     <<>>}

\* The configurations a Carousel is constructed with: the default, for each
\* edge.
CarouselConfigs == {CarouselDefault(edge) : edge \in Edges}

\* The configurations a UniformGrid is constructed with: the default, and one
\* with other paddings.
UniformGridConfigs ==
    {UniformGridDefault,
     [UniformGridDefault EXCEPT !.outer_padding = 4, !.view_padding = 3]}

\* The scroll offsets of a run are multiples of 2^-27; this is the exact
\* value of such an f32 in that unit.
UnitsPerOne == 2^27

Units(a) ==
    IF a.m = 0 THEN 0
    ELSE LET mag == IF a.e + 27 >= 0 THEN a.m * 2^(a.e + 27)
                    ELSE a.m \div 2^(-(a.e + 27))
         IN IF a.neg THEN -mag ELSE mag

VARIABLES
    engine,    \* which binary runs: "carousel" or "uniform-grid"
    config,    \* the engine's Config
    alive,     \* FALSE once a panic has ended the process
    last,      \* the latest call of the Layout trait and what it returned
    history    \* of the successful scroll commands: their number, the exact
               \* (unrounded) sum of their amounts in Units, and whether an
               \* addition to scroll_offset had to round

vars == <<engine, config, alive, last, history>>

NoCall ==
    [op |-> "none", cmd |-> <<>>, view_count |-> 0, usable_width |-> 0,
     usable_height |-> 0, ret |-> Ok, logged |-> <<>>]

\* What is known after user_cmd returned; Err results were logged by error!.
UserCmdCall(cmd, result) ==
    [op |-> "user_cmd", cmd |-> cmd, view_count |-> 0, usable_width |-> 0,
     usable_height |-> 0, ret |-> result,
     logged |-> IF result.kind = "Err" THEN <<result.error, result.arg>> ELSE <<>>]

GenerateLayoutCall(view_count, usable_width, usable_height, result) ==
    [op |-> "generate_layout", cmd |-> <<>>, view_count |-> view_count,
     usable_width |-> usable_width, usable_height |-> usable_height,
     ret |-> result, logged |-> <<>>]

Init ==
    /\ engine \in {"carousel", "uniform-grid"}
    /\ config \in IF engine = "carousel" THEN CarouselConfigs ELSE UniformGridConfigs
    /\ alive = TRUE
    /\ last = NoCall
    /\ history = [scrolls |-> 0, sum |-> 0, rounded |-> FALSE]

\* The history after `amount` was added to the scroll offset `before`.
Scrolled(h, before, amount) ==
    [scrolls |-> h.scrolls + 1,
     sum     |-> h.sum + Units(amount),
     rounded |-> h.rounded
                 \/ Units(F32Add(before, amount)) # Units(before) + Units(amount)]

\* <Carousel as Layout>::user_cmd
CarouselUserCmd(cmd) ==
    LET out == CarouselUserCmdInner(config, cmd) IN
    /\ engine = "carousel"
    /\ alive
    /\ out.result.kind = "Ok" => history.scrolls < MaxScrolls
    /\ config' = out.config
    /\ last' = UserCmdCall(cmd, out.result)
    /\ history' = IF out.result.kind = "Ok"
                  THEN Scrolled(history, config.scroll_offset,
                                ParseF32(SplitWhitespace(cmd)[2]).value)
                  ELSE history
    /\ UNCHANGED <<engine, alive>>

\* <Carousel as Layout>::generate_layout
CarouselLayoutDemand(view_count, usable_width, usable_height) ==
    LET out == CarouselGenerateLayout(config, view_count, usable_width, usable_height) IN
    /\ engine = "carousel"
    /\ alive
    /\ last' = GenerateLayoutCall(view_count, usable_width, usable_height, out)
    /\ alive' = (out.kind # "Panic")
    /\ UNCHANGED <<engine, config, history>>

\* <UniformGrid as Layout>::user_cmd
UniformGridUserCmd(cmd) ==
    LET out == UniformGridUserCmdInner(config, cmd) IN
    /\ engine = "uniform-grid"
    /\ alive
    /\ config' = out.config
    /\ last' = UserCmdCall(cmd, out.result)
    /\ UNCHANGED <<engine, alive, history>>

\* <UniformGrid as Layout>::generate_layout
UniformGridLayoutDemand(view_count, usable_width, usable_height) ==
    LET out == UniformGridGenerateLayout(config, view_count, usable_width, usable_height) IN
    /\ engine = "uniform-grid"
    /\ alive
    /\ last' = GenerateLayoutCall(view_count, usable_width, usable_height, out)
    /\ alive' = (out.kind # "Panic")
    /\ UNCHANGED <<engine, config, history>>

Next ==
    \/ \E cmd \in Commands : CarouselUserCmd(cmd)
    \/ \E view_count \in 0..MaxViews, size \in OutputSizes :
           CarouselLayoutDemand(view_count, size[1], size[2])
    \/ \E cmd \in Commands : UniformGridUserCmd(cmd)
    \/ \E view_count \in 0..MaxViews, size \in OutputSizes :
           UniformGridLayoutDemand(view_count, size[1], size[2])

Spec == Init /\ [][Next]_vars

\* --------------------------------------------------------------- claims

IsCarouselLayout == engine = "carousel" /\ last.op = "generate_layout"

IsGridLayout == engine = "uniform-grid" /\ last.op = "generate_layout"

\* C1: whenever generate_layout of either engine returns for view_count >= 1,
\* after any earlier commands, it returns exactly view_count views.
C1_ViewsLength ==
    (last.op = "generate_layout" /\ last.ret.kind = "Ok" /\ last.view_count >= 1)
        => Len(last.ret.views) = last.view_count

C1_Witness ==
    /\ IsCarouselLayout
    /\ last.ret.kind = "Ok"
    /\ last.view_count >= 3
    /\ history.scrolls >= 1

\* C2: the main rectangle of the carousel is flush against the configured
\* edge of the padded area and spans the full cross-axis, for each of the four
\* edges and every usable size.
C2_MainFlush ==
    (IsCarouselLayout /\ last.ret.kind = "Ok" /\ last.view_count >= 1) =>
        LET main == last.ret.views[1]
            p    == config.outer_padding
            w    == last.usable_width
            h    == last.usable_height
        IN CASE config.main_location = "Left" ->
                  main.x = p /\ main.y = p /\ main.height = h - 2 * p
             [] config.main_location = "Right" ->
                  main.x + main.width = w - p /\ main.y = p /\ main.height = h - 2 * p
             [] config.main_location = "Top" ->
                  main.y = p /\ main.x = p /\ main.width = w - 2 * p
             [] config.main_location = "Bottom" ->
                  main.y + main.height = h - p /\ main.x = p /\ main.width = w - 2 * p

\* C3: generate_layout has no error path: every call of either engine
\* returns a layout, never failing or aborting.
C3_AlwaysReturns == last.op = "generate_layout" => last.ret.kind = "Ok"

\* The secondary rectangles of `views` are those of `other` moved by `by`
\* strides against the scroll axis.
ShiftedBy(views, other, stride, by) ==
    /\ DOMAIN views = DOMAIN other
    /\ \A k \in DOMAIN views : k >= 2 =>
          /\ views[k].x = other[k].x - by * stride.x
          /\ views[k].y = other[k].y - by * stride.y
          /\ views[k].width = other[k].width
          /\ views[k].height = other[k].height

\* The stride of the latest carousel layout demand.
LastStride ==
    [x |-> SecondaryStrideX(config, last.usable_width),
     y |-> SecondaryStrideY(config, last.usable_height)]

\* The views of the latest carousel layout demand had scroll_offset been s.
LastViewsAt(s) ==
    CarouselGenerateLayout([config EXCEPT !.scroll_offset = s], last.view_count,
                           last.usable_width, last.usable_height).views

\* views[k] = base + (k - 2) * stride for every secondary k.
Unscrolled(views) ==
    LET base == SecondaryBase(config, last.usable_width, last.usable_height) IN
    \A k \in DOMAIN views : k >= 2 =>
        views[k] = Rectangle(base.x + (k - 2) * LastStride.x,
                             base.y + (k - 2) * LastStride.y,
                             base.width, base.height)

IsIntegral(a) == a.cls = "num" /\ Units(a) % UnitsPerOne = 0

C5_FailedCmdKeepsConfig ==
    [][last'.op = "user_cmd" =>
          LET words == SplitWhitespace(last'.cmd)
              ret   == last'.ret
          IN /\ ret.kind = "Err" => config' = config
             /\ engine = "uniform-grid" =>
                   ret.kind = "Err" /\ ret.error = "UnknownCommand"
             /\ (engine = "carousel" /\ (words = <<>> \/ words[1] # Scroll)) =>
                   /\ ret.kind = "Err" /\ ret.error = "UnknownCommand"
                   /\ ret.arg = IF words = <<>> THEN <<>> ELSE words[1]
             /\ (engine = "carousel" /\ words = <<Scroll>>) =>
                   ret.kind = "Err" /\ ret.error = "MissingArgument"
             /\ (engine = "carousel" /\ Len(words) >= 2 /\ words[1] = Scroll
                     /\ words[2] = <<"a", "b", "c">>) =>
                   ret.kind = "Err" /\ ret.error = "InvalidArgument"
             /\ (engine = "carousel" /\ ret.kind = "Err") =>
                   ret.error \in {"UnknownCommand", "MissingArgument", "InvalidArgument"}
      ]_vars

C5_Witness ==
    /\ engine = "carousel"
    /\ last.op = "user_cmd"
    /\ last.ret.kind = "Err"
    /\ last.ret.error = "InvalidArgument"
    /\ ~IsZero(config.scroll_offset)

\* C6 as stated: after any successful scroll commands scroll_offset is its
\* initial value (0) plus the sum of all the amounts.
C6_OffsetIsSum == engine = "carousel" => Units(config.scroll_offset) = history.sum

\* C6 amended: after any successful scroll commands none of whose additions
\* had to round, scroll_offset is its initial value (0) plus the sum of all
\* the amounts; so `scroll a` then `scroll -a` restores it.
C6_OffsetIsSumUnlessRounded ==
    (engine = "carousel" /\ ~history.rounded)
        => Units(config.scroll_offset) = history.sum

C6_Witness ==
    /\ engine = "carousel"
    /\ last.op = "user_cmd"
    /\ last.ret.kind = "Ok"
    /\ history.scrolls = 2
    /\ ~history.rounded
    /\ history.sum = 0
    /\ config.scroll_offset = Zero(FALSE)

\* C7: the first rectangle of a carousel layout is the main rectangle, the
\* same for every view_count >= 1 and every scroll_offset.
C7_FirstIsMain ==
    (IsCarouselLayout /\ last.ret.kind = "Ok" /\ last.view_count >= 1) =>
        /\ last.ret.views[1]
               = MainArea(config, last.usable_width, last.usable_height)
        /\ last.ret.views[1]
               = CarouselGenerateLayout([config EXCEPT !.scroll_offset = Zero(FALSE)],
                     1, last.usable_width, last.usable_height).views[1]

C7_Witness ==
    /\ IsCarouselLayout
    /\ last.ret.kind = "Ok"
    /\ last.view_count >= 2
    /\ ~IsZero(config.scroll_offset)

\* The grid the search of the latest uniform-grid layout demand ends with.
LastGrid ==
    GridSearch(config, IVec2(1, 1), IVec2(last.usable_width, last.usable_height),
               last.view_count)

\* C8 as stated: the search ends with a grid of at least view_count cells
\* that has the fewest cells among all such grids.
C8_FewestCells ==
    (IsGridLayout /\ last.ret.kind = "Ok" /\ last.view_count >= 1) =>
        /\ TotalCells(LastGrid) >= last.view_count
        /\ \A columns, rows \in 1..last.view_count :
              columns * rows >= last.view_count
                  => TotalCells(LastGrid) <= columns * rows

\* C8 amended: the search ends with a grid of at least view_count cells, the
\* first such grid of its chain of one-column or one-row steps from 1x1: the
\* grid one step before has fewer than view_count cells, so that the grid has
\* at most 2 * (view_count - 1) cells when view_count >= 2.
C8_GreedyGrid ==
    (IsGridLayout /\ last.view_count >= 1) =>
        LET columns == LastGrid.x
            rows    == LastGrid.y
        IN /\ columns >= 1 /\ rows >= 1
           /\ columns * rows >= last.view_count
           /\ last.view_count = 1 => columns = 1 /\ rows = 1
           /\ last.view_count >= 2 =>
                 /\ \/ columns > 1 /\ (columns - 1) * rows < last.view_count
                    \/ rows > 1 /\ columns * (rows - 1) < last.view_count
                 /\ columns * rows <= 2 * (last.view_count - 1)
           /\ last.ret.kind = "Ok" =>
                 last.ret.layout_name = <<"uniform-grid", rows, columns>>

C8_Witness ==
    /\ IsGridLayout
    /\ last.ret.kind = "Ok"
    /\ last.view_count = 3
    /\ last.ret.layout_name = <<"uniform-grid", 2, 2>>

\* The padded extent across the scroll axis split, D, of the latest carousel
\* layout demand.
LastCrossExtent ==
    IF config.main_location \in {"Left", "Right"}
    THEN PaddedHeight(config, last.usable_height)
    ELSE PaddedWidth(config, last.usable_width)

C10_SuccessiveAdjacent ==
    (IsGridLayout /\ last.view_count >= 1) =>
        /\ \A i \in 0..(last.view_count - 1) :
              /\ GridPosition(LastGrid, i).y = i \div LastGrid.x
              /\ GridPosition(LastGrid, i).x =
                     IF (i \div LastGrid.x) % 2 = 0
                     THEN i % LastGrid.x
                     ELSE LastGrid.x - 1 - (i % LastGrid.x)
        /\ \A columns, rows \in 1..last.view_count :
              \A i \in 0..(columns * rows - 2) :
                  Abs(GridPosition(IVec2(columns, rows), i + 1).x
                          - GridPosition(IVec2(columns, rows), i).x)
                      + Abs(GridPosition(IVec2(columns, rows), i + 1).y
                              - GridPosition(IVec2(columns, rows), i).y)
                      = 1
        /\ \A i \in 0..(last.view_count - 2) :
              Abs(GridPosition(LastGrid, i + 1).x - GridPosition(LastGrid, i).x)
                  + Abs(GridPosition(LastGrid, i + 1).y - GridPosition(LastGrid, i).y)
                  = 1
        /\ last.ret.kind = "Ok" =>
              \A i \in 0..(last.view_count - 1) :
                  last.ret.views[i + 1] =
                      At(GridLayout(config, LastGrid,
                                    IVec2(last.usable_width, last.usable_height)),
                         GridPosition(LastGrid, i))

C10_Witness ==
    /\ IsGridLayout
    /\ last.ret.kind = "Ok"
    /\ last.view_count >= 4
    /\ last.ret.layout_name[2] >= 2
    /\ last.ret.layout_name[3] >= 2
====
